---- MODULE Spec2Model ----
(***************************************************************************)
(* A model of backend.py: the Flask service that serves the diabetes       *)
(* regression model.  One POST /predict request is in flight at a time:    *)
(* the client posts a body, the handler predict() answers it, the answer   *)
(* is delivered.  The two pickled artifacts are loaded once, at import.    *)
(***************************************************************************)
EXTENDS Integers, Sequences, FiniteSets, TLC

VARIABLES model, scaler, request, response, calls, log

vars == <<model, scaler, request, response, calls, log>>

(***************************************************************************)
(* Program constants.                                                      *)
(***************************************************************************)
FEATURE_ORDER ==
    << "Age", "Sex", "BMI", "Average_Blood_Pressure", "Cholesterol",
       "LDL", "HDL", "TotalCholesterol_to_HDL", "Triglycerides", "HbA1c" >>

NFeatures == Len(FEATURE_ORDER)

UNITS == "(same units as model target)"

(***************************************************************************)
(* Bounds of the exploration.                                              *)
(***************************************************************************)
\* The longest `features` list a client posts.
MaxFeatsLen == 12

(***************************************************************************)
(* Python values.  A JSON document decodes to one of these.                *)
(***************************************************************************)
PyNone == [t |-> "None"]
PyNum(n) == [t |-> "num", v |-> n]
PyStr(s) == [t |-> "str", v |-> s]
PyBool(b) == [t |-> "bool", v |-> b]
PyList(items) == [t |-> "list", v |-> items]
PyDict(d) == [t |-> "dict", d |-> d]

\* float64 values: a finite number or NaN.
F(n) == [f |-> n]
NaN == [nan |-> TRUE]
IsNaN(x) == "nan" \in DOMAIN x

\* The result of a call: a value, or a raised exception.
Ok(v) == [ok |-> TRUE, val |-> v]
Raise(kind, msg) == [ok |-> FALSE, exc |-> kind, msg |-> msg]

(***************************************************************************)
(* request.get_json(force=True).  A body is either bytes that are not JSON *)
(* or a JSON document; an object is a sequence of members <<key, value>>.  *)
(***************************************************************************)
JNull == [t |-> "null"]
JNum(n) == [t |-> "num", v |-> n]
JStr(s) == [t |-> "str", v |-> s]
JBool(b) == [t |-> "bool", v |-> b]
JArray(items) == [t |-> "array", items |-> items]
JObject(members) == [t |-> "object", members |-> members]

MalformedBody == [raw |-> "malformed"]
JsonBody(doc) == [raw |-> "json", doc |-> doc]

Keys(members) == { members[i][1] : i \in DOMAIN members }

\* The index of the last member with key k: json.loads keeps the last duplicate.
LastIndex(members, k) ==
    CHOOSE i \in DOMAIN members :
        /\ members[i][1] = k
        /\ \A j \in DOMAIN members : members[j][1] = k => j <= i

RECURSIVE Decode(_)
Decode(j) ==
    CASE j.t = "null" -> PyNone
      [] j.t = "num" -> PyNum(j.v)
      [] j.t = "str" -> PyStr(j.v)
      [] j.t = "bool" -> PyBool(j.v)
      [] j.t = "array" -> PyList([i \in DOMAIN j.items |-> Decode(j.items[i])])
      [] j.t = "object" ->
            PyDict([k \in Keys(j.members) |->
                        Decode(j.members[LastIndex(j.members, k)][2])])

\* werkzeug raises BadRequest, an HTTPException, when the body is not JSON.
GetJson(body) ==
    IF body.raw = "malformed"
    THEN Raise("BadRequest", [m |-> "400 Bad Request: Failed to decode JSON object"])
    ELSE Ok(Decode(body.doc))

(***************************************************************************)
(* np.array(values, dtype=float).reshape(1, -1)                            *)
(***************************************************************************)
\* The strings float() accepts, among those the clients send.
NumericLiterals == ("3" :> 3) @@ ("45" :> 45)

PyToFloat(v) ==
    CASE v.t = "num" -> Ok(F(v.v))
      [] v.t = "bool" -> Ok(F(IF v.v THEN 1 ELSE 0))
      [] v.t = "None" -> Ok(NaN)
      [] v.t = "str" ->
            IF v.v \in DOMAIN NumericLiterals
            THEN Ok(F(NumericLiterals[v.v]))
            ELSE Raise("ValueError", [m |-> "could not convert string to float", arg |-> v.v])
      [] v.t = "list" ->
            Raise("ValueError", [m |-> "setting an array element with a sequence."])
      [] v.t = "dict" ->
            Raise("TypeError", [m |-> "float() argument must be a string or a real number, not 'dict'"])

\* Element by element, left to right; the first failure is the one raised.
RECURSIVE ConvertAll(_, _, _)
ConvertAll(values, i, acc) ==
    IF i > Len(values) THEN Ok(acc)
    ELSE LET c == PyToFloat(values[i]) IN
         IF c.ok THEN ConvertAll(values, i + 1, Append(acc, c.val)) ELSE c

RECURSIVE Flatten(_, _)
Flatten(rows, i) ==
    IF i > Len(rows) THEN << >> ELSE rows[i].v \o Flatten(rows, i + 1)

InhomogeneousShape ==
    Raise("ValueError", [m |-> "setting an array element with a sequence. The requested array has an inhomogeneous shape"])

\* numpy first discovers the shape: ten equal-length rows make a 2-D array,
\* which reshape(1, -1) flattens row by row; rows mixed with scalars, or rows
\* of different lengths, are a ValueError.
NpArrayFloat(values) ==
    LET rows == { i \in DOMAIN values : values[i].t = "list" } IN
    IF rows = {} THEN ConvertAll(values, 1, << >>)
    ELSE IF /\ rows = DOMAIN values
            /\ \A i \in rows : Len(values[i].v) = Len(values[1].v)
         THEN ConvertAll(Flatten(values, 1), 1, << >>)
         ELSE InhomogeneousShape

(***************************************************************************)
(* _parse_features_from_json                                               *)
(***************************************************************************)
\* str(KeyError(name)) is repr(name): the name between single quotes.
StrKeyError(name) == << "'", name, "'" >>

\* s.strip("\""): drops leading and trailing double quotes.
RECURSIVE StripDQ(_)
StripDQ(s) ==
    IF s = << >> THEN s
    ELSE IF Head(s) = "\"" THEN StripDQ(Tail(s))
    ELSE IF s[Len(s)] = "\"" THEN StripDQ(SubSeq(s, 1, Len(s) - 1))
    ELSE s

MsgFeaturesType == [m |-> "'features' must be a list or tuple of numeric values."]
MsgCount(expected, got) ==
    [m |-> "Expected {} features but got {}.", expected |-> expected, got |-> got]
MsgMissing(missing) ==
    [m |-> "Missing feature: {}. Expected keys: {}", missing |-> missing,
     expected |-> FEATURE_ORDER]
MsgShape ==
    [m |-> "JSON payload must be an object with either a 'features' list or named feature keys."]

\* The comprehension collecting the values last name first.
RECURSIVE LookupAllReversed(_, _, _)
LookupAllReversed(d, i, acc) ==
    IF i > Len(FEATURE_ORDER) THEN Ok(acc)
    ELSE IF FEATURE_ORDER[i] \notin DOMAIN d
         THEN Raise("KeyError", StrKeyError(FEATURE_ORDER[i]))
         ELSE LookupAllReversed(d, i + 1, << d[FEATURE_ORDER[i]] >> \o acc)

\* The comprehension with data.get(name): an absent name reads as None.
RECURSIVE LookupAllGet(_, _, _)
LookupAllGet(d, i, acc) ==
    IF i > Len(FEATURE_ORDER) THEN Ok(acc)
    ELSE LookupAllGet(d, i + 1,
             Append(acc, IF FEATURE_ORDER[i] \in DOMAIN d THEN d[FEATURE_ORDER[i]] ELSE PyNone))

\* [data[name] for name in FEATURE_ORDER]: the first absent name raises KeyError.
RECURSIVE LookupAll(_, _, _)
LookupAll(d, i, acc) ==
    IF i > Len(FEATURE_ORDER) THEN Ok(acc)
    ELSE IF FEATURE_ORDER[i] \notin DOMAIN d
         THEN Raise("KeyError", StrKeyError(FEATURE_ORDER[i]))
         ELSE LookupAll(d, i + 1, Append(acc, d[FEATURE_ORDER[i]]))

ParseFeaturesFromJson(data) ==
    IF data.t = "dict" /\ "features" \in DOMAIN data.d
    THEN LET feats == data.d["features"] IN
         IF feats.t # "list" THEN Raise("ValueError", MsgFeaturesType)
         ELSE IF Len(feats.v) # Len(FEATURE_ORDER)
              THEN Raise("ValueError", MsgCount(Len(FEATURE_ORDER), Len(feats.v)))
              ELSE NpArrayFloat(feats.v)
    ELSE IF data.t = "dict"
         THEN LET values == LookupAll(data.d, 1, << >>) IN
              IF ~values.ok
              THEN Raise("ValueError", MsgMissing(StripDQ(values.msg)))
              ELSE NpArrayFloat(values.val)
         ELSE Raise("ValueError", MsgShape)

(***************************************************************************)
(* The two artifacts.  Each is None when its pickle could not be loaded.   *)
(* A loaded artifact is opaque: what its method does is fixed by the file. *)
(***************************************************************************)
Estimator(behaviour) == [t |-> "estimator", predict |-> behaviour]
Transformer(behaviour) == [t |-> "scaler", transform |-> behaviour]

PredictBehaviours == { "ndarray", "float", "raise ValueError", "raise RuntimeError" }
TransformBehaviours == { "scaled", "raise ValueError", "raise RuntimeError" }

ModelArtifacts == { Estimator(b) : b \in PredictBehaviours }
ScalerArtifacts == { Transformer(b) : b \in TransformBehaviours }

FAdd(a, b) == IF IsNaN(a) \/ IsNaN(b) THEN NaN ELSE F(a.f + b.f)

RECURSIVE FSum(_, _)
FSum(X, i) == IF i > Len(X) THEN F(0) ELSE FAdd(X[i], FSum(X, i + 1))

WidthError == Raise("ValueError", [m |-> "X has a different number of features than the estimator was fitted with"])

\* scaler.transform(X): a pure elementwise map of a fitted scaler, or a raise.
ScalerTransform(scl, X) ==
    IF scl.t # "scaler"
    THEN Raise("AttributeError", [m |-> "'NoneType' object has no attribute 'transform'"])
    ELSE CASE scl.transform = "raise ValueError" ->
                  Raise("ValueError", [m |-> "scaler failed"])
           [] scl.transform = "raise RuntimeError" ->
                  Raise("RuntimeError", [m |-> "scaler failed"])
           [] scl.transform = "scaled" ->
                  IF Len(X) # NFeatures THEN WidthError
                  ELSE Ok([i \in DOMAIN X |-> IF IsNaN(X[i]) THEN NaN ELSE F(2 * X[i].f + 1)])

NaNError == Raise("ValueError", [m |-> "Input X contains NaN."])

\* model.predict(X): a regressor fitted on the FEATURE_ORDER columns.  An
\* "ndarray" model validates its input as scikit-learn estimators do and
\* answers a numpy array; a "float" model answers a plain float and lets NaN
\* through; the other two raise.
ModelPredict(mdl, X) ==
    IF mdl.t # "estimator"
    THEN Raise("AttributeError", [m |-> "'NoneType' object has no attribute 'predict'"])
    ELSE CASE mdl.predict = "raise ValueError" ->
                  Raise("ValueError", [m |-> "model failed"])
           [] mdl.predict = "raise RuntimeError" ->
                  Raise("RuntimeError", [m |-> "model failed"])
           [] mdl.predict = "ndarray" ->
                  IF Len(X) # NFeatures THEN WidthError
                  ELSE IF \E i \in DOMAIN X : IsNaN(X[i]) THEN NaNError
                  ELSE Ok([t |-> "ndarray", v |-> << FSum(X, 1) >>])
           [] mdl.predict = "float" ->
                  IF Len(X) # NFeatures THEN WidthError
                  ELSE Ok([t |-> "float", v |-> FSum(X, 1)])

(***************************************************************************)
(* POST /predict                                                           *)
(***************************************************************************)
Call(fn, arg) == [fn |-> fn, arg |-> arg]

JsonResponse(status, body) == [status |-> status, json |-> TRUE, body |-> body]

\* What Flask answers when an exception leaves the view function.
UnhandledFault(exc) ==
    [status |-> 500, json |-> FALSE, body |-> [html |-> "Internal Server Error", exc |-> exc]]

Handled(resp, cs, lg) == [response |-> resp, calls |-> cs, log |-> lg]

ModelNotLoaded ==
    Handled(JsonResponse(500, [error |-> "Model not loaded on server."]), << >>, << >>)

\* The classes raised here; each derives from Exception.
ExceptionClasses ==
    { "ValueError", "TypeError", "KeyError", "AttributeError", "RuntimeError", "BadRequest" }

\* except Exception (line 108), around scaler.transform alone.
ScalerExceptNarrow(exc) == exc = "ValueError"
ScalerExcept(exc) == exc \in ExceptionClasses

\* Lines 104-113: the scaled vector, or the raw one when there is no scaler
\* or its transform raised; an exception the inner clause does not catch
\* leaves the block.
ApplyScaler(scl, X) ==
    IF scl # PyNone
    THEN LET t == ScalerTransform(scl, X) IN
         IF t.ok
         THEN [ok |-> TRUE, X_scaled |-> t.val,
               calls |-> << Call("scaler.transform", X) >>, log |-> << >>]
         ELSE IF ScalerExcept(t.exc)
              THEN [ok |-> TRUE, X_scaled |-> X,
                    calls |-> << Call("scaler.transform", X) >>,
                    log |-> << "Scaler transform failed" >>]
              ELSE [ok |-> FALSE, exc |-> t.exc, msg |-> t.msg,
                    calls |-> << Call("scaler.transform", X) >>, log |-> << >>]
    ELSE [ok |-> TRUE, X_scaled |-> X, calls |-> << >>, log |-> << >>]

\* Lines 118-122: pred.tolist() when there is one, else float(pred).
NormalizePrediction(pred) ==
    IF pred.t = "ndarray" THEN Ok(pred.v)
    ELSE IF pred.t = "float" THEN Ok(pred.v)
    ELSE Raise("TypeError", [m |-> "float() argument must be a string or a real number"])

\* dict(zip(FEATURE_ORDER, values)): pairs up to the shorter of the two.
ZipFeatures(values) ==
    [i \in 1..(IF Len(values) < Len(FEATURE_ORDER) THEN Len(values) ELSE Len(FEATURE_ORDER))
        |-> << FEATURE_ORDER[i], values[i] >>]

\* Line 127: the echo is built from X, the vector as parsed.
EchoScaled(X, X_scaled) == X_scaled
EchoVector(X, X_scaled) == X

ResponseBody(out, X, X_scaled) ==
    [prediction |-> out, units |-> UNITS,
     input_features |-> ZipFeatures(EchoVector(X, X_scaled))]

\* Lines 101-129: the body of the try block.  Its outcome is the response
\* dict or the exception that left the block.
TryBlock(mdl, scl, body) ==
    LET data == GetJson(body) IN
    IF ~data.ok THEN [out |-> data, calls |-> << Call("get_json", body) >>, log |-> << >>]
    ELSE
    LET X == ParseFeaturesFromJson(data.val)
        c1 == << Call("get_json", body), Call("_parse_features_from_json", data.val) >>
    IN
    IF ~X.ok THEN [out |-> X, calls |-> c1, log |-> << >>]
    ELSE
    LET s == ApplyScaler(scl, X.val) IN
    IF ~s.ok THEN [out |-> Raise(s.exc, s.msg), calls |-> c1 \o s.calls, log |-> s.log]
    ELSE
    LET pred == ModelPredict(mdl, s.X_scaled)
        c2 == c1 \o s.calls \o << Call("model.predict", s.X_scaled) >>
    IN
    IF ~pred.ok THEN [out |-> pred, calls |-> c2, log |-> s.log]
    ELSE
    LET out == NormalizePrediction(pred.val) IN
    IF ~out.ok THEN [out |-> out, calls |-> c2, log |-> s.log]
    ELSE [out |-> Ok(ResponseBody(out.val, X.val, s.X_scaled)), calls |-> c2, log |-> s.log]

\* except ValueError (line 131).
IsValueError(exc) == exc = "ValueError"

\* except Exception (line 133).
IsExceptionNarrow(exc) == exc = "RuntimeError"
IsException(exc) == exc \in ExceptionClasses

\* Lines 131-135: the two except clauses, in order.
ExceptClauses(r) ==
    IF IsValueError(r.out.exc)
    THEN Handled(JsonResponse(400, [error |-> "bad request", message |-> r.out.msg]),
                 r.calls, r.log)
    ELSE IF IsException(r.out.exc)
         THEN Handled(JsonResponse(500, [error |-> "internal_server_error",
                                          message |-> r.out.msg]),
                      r.calls, Append(r.log, "Internal error during /predict"))
         ELSE Handled(UnhandledFault(r.out.exc), r.calls, r.log)

\* The handler without the guard of line 97.
PredictHandlerNoGuard(mdl, scl, body) ==
    LET r == TryBlock(mdl, scl, body) IN
    IF r.out.ok
    THEN Handled(JsonResponse(200, r.out.val), r.calls, r.log)
    ELSE ExceptClauses(r)

PredictHandler(mdl, scl, body) ==
    IF mdl = PyNone THEN ModelNotLoaded
    ELSE LET r == TryBlock(mdl, scl, body) IN
         IF r.out.ok
         THEN Handled(JsonResponse(200, r.out.val), r.calls, r.log)
         ELSE ExceptClauses(r)

(***************************************************************************)
(* The bodies clients post.                                                *)
(***************************************************************************)
\* The example of the usage notes, and a vector whose ten values all differ.
ExampleVector == << 45, 1, 27, 80, 190, 110, 50, 4, 150, 6 >>
Positions == 1..NFeatures

BaseVectors ==
    { [i \in Positions |-> JNum(ExampleVector[i])], [i \in Positions |-> JNum(i)] }

\* JSON values that are not numbers.
NonNumbers ==
    { JStr("abc"), JStr("45"), JNull, JBool(TRUE), JBool(FALSE),
      JArray(<< JNum(7) >>), JArray(<< JNum(7), JNum(8) >>),
      JObject(<< >>), JObject(<< << "a", JNum(1) >> >>) }

\* Ten values: a base vector with one position replaced, or one value ten times.
ValueVectors ==
    BaseVectors
    \cup { [b EXCEPT ![p] = v] : b \in BaseVectors, p \in Positions, v \in NonNumbers }
    \cup { [i \in Positions |-> v] : v \in NonNumbers }

RECURSIVE NamedMembers(_, _, _)
\* The members <<name, value>> of the positions in `present`, in canonical order.
NamedMembers(values, present, i) ==
    IF i > NFeatures THEN << >>
    ELSE (IF i \in present THEN << << FEATURE_ORDER[i], values[i] >> >> ELSE << >>)
         \o NamedMembers(values, present, i + 1)

Reverse(s) == [i \in DOMAIN s |-> s[Len(s) + 1 - i]]
Rotate(s) == IF s = << >> THEN s ELSE Tail(s) \o << Head(s) >>
ExtraMember == << "Name", JStr("abc") >>

FeaturesBody(items) == JsonBody(JObject(<< << "features", JArray(items) >> >>))
NamedBody(members) == JsonBody(JObject(members))

NonObjectBodies ==
    { JsonBody(JNull), JsonBody(JNum(7)), JsonBody(JStr("features")), JsonBody(JBool(TRUE)),
      JsonBody(JArray(<< >>)),
      JsonBody(JArray([i \in Positions |-> JNum(i)])) }

FeaturesBodies ==
    { FeaturesBody(v) : v \in ValueVectors }
    \cup { FeaturesBody([i \in 1..n |-> JNum(i)]) : n \in 0..MaxFeatsLen }
    \cup { JsonBody(JObject(<< << "features", v >> >>)) :
              v \in { JNum(7), JStr("abc"), JNull, JBool(TRUE), JObject(<< >>) } }
    \cup { JsonBody(JObject(NamedMembers(b, Positions, 1)
                              \o << << "features", JArray(c) >> >>)) :
              b \in BaseVectors, c \in BaseVectors }

NamedBodies ==
    { NamedBody(NamedMembers(v, Positions, 1)) : v \in ValueVectors }
    \cup { NamedBody(NamedMembers(v, present, 1)) :
              v \in BaseVectors \cup { [i \in Positions |-> JObject(<< >>)] },
              present \in SUBSET Positions }
    \cup { NamedBody(Reverse(NamedMembers(v, Positions, 1))) : v \in BaseVectors }
    \cup { NamedBody(Rotate(NamedMembers(v, Positions, 1))) : v \in BaseVectors }
    \cup { NamedBody(<< ExtraMember >> \o Reverse(NamedMembers(v, Positions, 1))) :
              v \in BaseVectors }
    \cup { NamedBody(NamedMembers(v, Positions, 1) \o << ExtraMember >>) :
              v \in BaseVectors }

Bodies == { MalformedBody } \cup NonObjectBodies \cup FeaturesBodies \cup NamedBodies

(***************************************************************************)
(* The service.                                                            *)
(***************************************************************************)
NoRequest == [raw |-> "none"]
NoResponse == [none |-> TRUE]

\* Lines 49-62: each pickle loads, or its global is left None.
Init ==
    /\ model \in ModelArtifacts \cup { PyNone }
    /\ scaler \in ScalerArtifacts \cup { PyNone }
    /\ request = NoRequest
    /\ response = NoResponse
    /\ calls = << >>
    /\ log = << >>

\* A client posts `body` to /predict.
Receive(body) ==
    /\ request' = body
    /\ UNCHANGED << model, scaler, response, calls, log >>

\* The view function runs on the pending request.
predict ==
    /\ request # NoRequest
    /\ response = NoResponse
    /\ \E h \in { PredictHandler(model, scaler, request) } :
          /\ response' = h.response
          /\ calls' = h.calls
          /\ log' = h.log
    /\ UNCHANGED << model, scaler, request >>

\* The response leaves; the request context is gone.
Deliver ==
    /\ response # NoResponse
    /\ request' = NoRequest
    /\ response' = NoResponse
    /\ calls' = << >>
    /\ log' = << >>
    /\ UNCHANGED << model, scaler >>

Next ==
    \/ request = NoRequest /\ \E body \in Bodies : Receive(body)
    \/ predict
    \/ Deliver

Spec == Init /\ [][Next]_vars

(***************************************************************************)
(* Reading a state: what was posted, what the handler did.                 *)
(***************************************************************************)
Responded == response # NoResponse
ModelLoaded == model # PyNone

IsObjectBody(b) == b.raw = "json" /\ b.doc.t = "object"
HasKey(b, k) == \E i \in DOMAIN b.doc.members : b.doc.members[i][1] = k
MemberValue(b, k) ==
    b.doc.members[CHOOSE i \in DOMAIN b.doc.members : b.doc.members[i][1] = k][2]

\* The body carries a `features` list of NFeatures items.
IsFeaturesList(b) ==
    /\ IsObjectBody(b)
    /\ HasKey(b, "features")
    /\ MemberValue(b, "features").t = "array"
    /\ Len(MemberValue(b, "features").items) = NFeatures

\* The body is an object without `features` (the named-field shape).
IsNamedShape(b) == IsObjectBody(b) /\ ~HasKey(b, "features")
MissingPositions(b) == { i \in Positions : ~HasKey(b, FEATURE_ORDER[i]) }
IsNamedComplete(b) == IsNamedShape(b) /\ MissingPositions(b) = {}

\* The ten values of a payload, in canonical order.
PayloadValues(b) ==
    IF IsFeaturesList(b) THEN MemberValue(b, "features").items
    ELSE [i \in Positions |-> MemberValue(b, FEATURE_ORDER[i])]

NonNumeric(v) ==
    \/ v.t \in { "null", "bool", "array", "object" }
    \/ v.t = "str" /\ v.v \notin DOMAIN NumericLiterals

HasNonNumericValue(b) ==
    /\ IsFeaturesList(b) \/ IsNamedComplete(b)
    /\ \E i \in Positions : NonNumeric(PayloadValues(b)[i])

AllNumbers(b) ==
    /\ IsFeaturesList(b) \/ IsNamedComplete(b)
    /\ \A i \in Positions : PayloadValues(b)[i].t = "num"

CallsOf(fn) == { i \in DOMAIN calls : calls[i].fn = fn }

\* The vector the parser made of the pending request.
Parsed == ParseFeaturesFromJson(Decode(request.doc))

\* The request parsed, the loaded scaler raises on the parsed vector, and
\* the model answers on that vector.
ScalerFailsModelAnswers ==
    /\ ModelLoaded
    /\ scaler # PyNone
    /\ request.raw = "json"
    /\ Parsed.ok
    /\ ~ScalerTransform(scaler, Parsed.val).ok
    /\ ModelPredict(model, Parsed.val).ok

PredictFailed ==
    \E i \in CallsOf("model.predict") : ~ModelPredict(model, calls[i].arg).ok

(***************************************************************************)
(* Claims                                                                  *)
(***************************************************************************)

\* C1: with no model loaded, every POST /predict is answered 500 with the
\* error that the model is not loaded, whatever the body (valid, invalid or
\* not JSON), and nothing is called: not get_json, not the parser, not the
\* scaler, not the model.
C1_NoModelAlways500 ==
    (Responded /\ ~ModelLoaded) =>
        /\ response.status = 500
        /\ response.json
        /\ response.body.error = "Model not loaded on server."
        /\ calls = << >>

C1_Witness ==
    /\ Responded /\ ~ModelLoaded
    /\ AllNumbers(request)
    /\ response.status = 500

\* C2: with a model loaded, a non-numeric JSON value (non-numeric string,
\* null, boolean, nested list, nested object) at any position of a ten-item
\* `features` list, or bound to any of the ten canonical names, is answered
\* 400.
C2_NonNumericIs400 ==
    (Responded /\ ModelLoaded /\ HasNonNumericValue(request)) =>
        response.status = 400

\* C3: whatever model.predict raises on a parsed vector, the answer is 500.
C3_PredictFailureIs500 ==
    (Responded /\ PredictFailed) => response.status = 500

\* C4: with a model loaded, a body that does not decode to a JSON object
\* (not JSON at all, or a top-level null, number, string or array) is
\* answered 400 "bad request" and is not logged as an internal error.
C4_NonObjectBodyIs400 ==
    (Responded /\ ModelLoaded /\ ~IsObjectBody(request)) =>
        /\ response.status = 400
        /\ response.body.error = "bad request"
        /\ \A i \in DOMAIN log : log[i] # "Internal error during /predict"

\* C5: when the loaded scaler's transform raises on a parsed input and the
\* model's predict succeeds, the answer is 200; the model was called once,
\* on the vector as parsed, and the answer is the one a server without
\* scaler gives, so the failure does not show.
C5_ScalerFailureFallsBack ==
    (Responded /\ ScalerFailsModelAnswers) =>
        /\ response.status = 200
        /\ Cardinality(CallsOf("scaler.transform")) = 1
        /\ Cardinality(CallsOf("model.predict")) = 1
        /\ \A i \in CallsOf("model.predict") : calls[i].arg = Parsed.val
        /\ response = PredictHandler(model, PyNone, request).response

C5_Witness ==
    /\ Responded
    /\ scaler = Transformer("raise RuntimeError")
    /\ ScalerFailsModelAnswers
    /\ response.status = 200

\* C6: a named-field payload binding the ten canonical names to numbers,
\* its keys in any order and with keys other than `features` beside them,
\* parses to the same vector as the `features` list of those numbers in
\* canonical order, and gets the same response.
C6_NamedEqualsList ==
    (Responded /\ IsNamedComplete(request) /\ AllNumbers(request)) =>
        LET listBody == FeaturesBody(PayloadValues(request)) IN
        /\ Parsed = Ok([i \in Positions |-> F(PayloadValues(request)[i].v)])
        /\ Parsed = ParseFeaturesFromJson(Decode(listBody.doc))
        /\ response = PredictHandler(model, scaler, listBody).response

C6_Witness ==
    /\ Responded /\ IsNamedComplete(request) /\ AllNumbers(request)
    /\ request.doc.members[1] = ExtraMember
    /\ request.doc.members[2][1] = FEATURE_ORDER[NFeatures]
    /\ response.status = 200

\* C8: with a model loaded, an object without `features` that lacks some of
\* the ten canonical names is answered 400; the message names the first
\* absent name in canonical order and lists the ten expected names; neither
\* the scaler nor the model is called.
C8_MissingFieldNamed ==
    (Responded /\ ModelLoaded /\ IsNamedShape(request) /\ MissingPositions(request) # {}) =>
        LET first == CHOOSE i \in MissingPositions(request) :
                        \A j \in MissingPositions(request) : i <= j
        IN
        /\ response.status = 400
        /\ response.body.error = "bad request"
        /\ "missing" \in DOMAIN response.body.message
        /\ \E k \in DOMAIN response.body.message.missing :
                response.body.message.missing[k] = FEATURE_ORDER[first]
        /\ response.body.message.expected = FEATURE_ORDER
        /\ CallsOf("scaler.transform") = {}
        /\ CallsOf("model.predict") = {}

C8_Witness ==
    /\ Responded /\ ModelLoaded /\ IsNamedShape(request)
    /\ MissingPositions(request) = { 3, 7 }
    /\ MemberValue(request, "Age").t = "object"
    /\ response.status = 400

\* C7: every error response (400 or 500) carries both an `error` and a
\* `message` field.
C7_ErrorsCarryMessage ==
    (Responded /\ response.status \in { 400, 500 }) =>
        { "error", "message" } \subseteq DOMAIN response.body

Terminal(resp) == resp # NoResponse /\ resp.json /\ resp.status \in { 200, 400, 500 }
Pending == request # NoRequest /\ ~Responded

\* C10: every request is answered once: the handler is defined on every
\* pending request, whatever was loaded, posted or raised on the way; the
\* step that handles it leaves one JSON response with status 200, 400 or
\* 500; and the only step after a response is its delivery.
C10_AlwaysOneJsonResponse ==
    /\ [](Pending => Terminal(PredictHandler(model, scaler, request).response))
    /\ [](Responded => request # NoRequest /\ Terminal(response))
    /\ [][/\ Pending => Terminal(response') /\ request' = request
          /\ Responded => response' = NoResponse /\ request' = NoRequest]_vars

C10_Witness ==
    /\ Responded
    /\ request = MalformedBody
    /\ ModelLoaded
    /\ response.json /\ response.status = 500

====
